---- MODULE Spec2Model ----
(***************************************************************************)
(* hasura-auth: OAuth redirect flow (routes/oauth/index.ts) and the        *)
(* account resolution of routes/oauth/utils.ts (findOrCreateUser,          *)
(* createUser), as a state machine over the session store and the user /   *)
(* provider-link tables.  Every HTTP request occupies a slot; a handler    *)
(* advances one step per await.                                            *)
(*                                                                         *)
(* Spec          the redirect flow with concurrent callbacks               *)
(* NativeSpec    POST /native/google_token (routes/oauth/native.ts)        *)
(* CreateSpec    createUser on its own, with every kind of option          *)
(* WebAuthnSpec  challenge issue and verification (utils/webauthn.ts)      *)
(***************************************************************************)
EXTENDS Integers, FiniteSets, Sequences, TLC

\* ---------------------------------------------------------------- bounds
\* Requests served in one behaviour, and callbacks in flight at a time.
MaxRequests == 3
MaxSlots == 2

Slots == 1..MaxSlots

None == "none"

\* ------------------------------------------------------- provider registry
\* PROVIDERS_CONFIG (routes/oauth/config): the providers the service knows,
\* each with the credentials its grant entry reads from the environment.
\* github: client_id and client_secret; google: enabled, but only half of
\* each pair is set; facebook: known, not enabled.
PROVIDERS_CONFIG ==
  [ github   |-> [client_id |-> TRUE,  client_secret |-> TRUE,  key |-> FALSE, secret |-> FALSE],
    google   |-> [client_id |-> TRUE,  client_secret |-> FALSE, key |-> FALSE, secret |-> TRUE],
    facebook |-> [client_id |-> TRUE,  client_secret |-> TRUE,  key |-> FALSE, secret |-> FALSE] ]

\* castBooleanEnv(`AUTH_PROVIDER_<NAME>_ENABLED`)
ProviderEnabledEnv == {"github", "google"}

\* The Grant defaults entry: origin, prefix, transport, scope, response; it
\* carries no client_id / client_secret / key / secret.
GrantDefaults == [client_id |-> FALSE, client_secret |-> FALSE, key |-> FALSE, secret |-> FALSE]

\* createGrantConfig: reduce over the keys of PROVIDERS_CONFIG, starting from
\* { defaults: ... }, adding aggr[provider] = grant for the enabled ones.
createGrantConfig ==
  [ k \in {"defaults"} \cup {p \in DOMAIN PROVIDERS_CONFIG : p \in ProviderEnabledEnv} |->
      IF k = "defaults" THEN GrantDefaults ELSE PROVIDERS_CONFIG[k] ]

grantConfig == createGrantConfig

\* The :provider path parameter of a request: any string.
ProviderParams == {"github", "google", "facebook", "defaults"}

\* `!(client_id && client_secret) && !(key && secret)`
MissingCredentials(providerConfig) ==
  /\ ~(providerConfig.client_id /\ providerConfig.client_secret)
  /\ ~(providerConfig.key /\ providerConfig.secret)

\* ------------------------------------------------------------- flow state
\* ENV.AUTH_CLIENT_URL, the default redirect target.
AUTH_CLIENT_URL == "client-url"
RedirectTargets == {"custom-url"}

\* Registration options of the initiating query, stored verbatim.
NoOptions == [present |-> FALSE, displayName |-> None]
QueryOptions == {[present |-> TRUE, displayName |-> "Opt"]}

\* A session as express-session creates it (saveUninitialized): no grant, no
\* options, no redirectTo.
EmptySession == [provider |-> None, options |-> NoOptions, redirectTo |-> None]

\* The query of a callback request.
NoQuery == [error |-> None, error_description |-> None]
CallbackQueries == {NoQuery, [error |-> "access_denied", error_description |-> None]}

\* ---------------------------------------------------------------- profiles
NoProfile == [id |-> "absent", name |-> None, email |-> None, email_verified |-> FALSE]

\* Raw profiles a provider returns: the e-mail or the id may be missing, the
\* e-mail may be unverified.
RawProfiles ==
  { [id |-> "x1", name |-> "Ann", email |-> "a@example.com", email_verified |-> TRUE],
    [id |-> "x1", name |-> None, email |-> "b@example.com", email_verified |-> TRUE],
    [id |-> "x2", name |-> None, email |-> "a@example.com", email_verified |-> FALSE],
    [id |-> "x2", name |-> "Xen", email |-> None, email_verified |-> FALSE],
    [id |-> None, name |-> "Ann", email |-> "a@example.com", email_verified |-> TRUE] }

NoResponse == [profile |-> NoProfile, access_token |-> 0, refresh_token |-> 0, error |-> None]

\* What Grant leaves in session.grant.response after the token exchange of
\* request number n: an error without a profile, or a profile with the
\* tokens the provider issued (a provider may issue no refresh token).
GrantResponses(n) ==
  { [profile |-> NoProfile, access_token |-> 0, refresh_token |-> 0, error |-> "exchange failed"] }
  \cup { [profile |-> p, access_token |-> n, refresh_token |-> n, error |-> None] : p \in RawProfiles }
  \cup { [profile |-> [id |-> "x1", name |-> "Ann", email |-> "a@example.com", email_verified |-> TRUE],
          access_token |-> n, refresh_token |-> 0, error |-> None] }

\* ------------------------------------------------------------------ state
VARIABLES
  init,       \* the last request to GET /signin/provider/:provider and its outcome
  req,        \* per slot: the callback being served and the handler's position
  started,    \* number of requests received so far
  sessions,   \* SessionStore: session id -> session
  destroyed,  \* session ids a callback has destroyed
  users,      \* auth.users rows
  links,      \* auth.user_providers rows
  issued,     \* application refresh tokens minted by getNewRefreshToken
  createdFor, \* history: <<user id, provider, providerUserId>> of each user insertUser created
  native,     \* the last request to POST /native/google_token and what it did
  wa,         \* per slot: the WebAuthn registration request being served
  currentChallenge,  \* auth.users.current_challenge, per user id (0: null)
  authenticators,    \* auth.user_authenticators rows
  verified,   \* history: <<user id, credential>> verified since the user's last challenge
  creation    \* the last call of createUser run on its own, and what it returned

vars == <<init, req, started, sessions, destroyed, users, links, issued, createdFor,
          native, wa, currentChallenge, authenticators, verified, creation>>

\* The state of the redirect flow, of the native flow and of WebAuthn.
oauthVars == <<init, req, sessions, destroyed>>
nativeVars == <<native>>
createVars == <<creation>>
webauthnVars == <<wa, currentChallenge, authenticators, verified>>

NoResult == [to |-> None, error |-> None, errorDescription |-> None,
             provider |-> None, refreshToken |-> 0]

NoInit == [param |-> None, sid |-> 0, reachedGrant |-> FALSE, error |-> None]

NoCanonical == [id |-> None, displayName |-> None, email |-> None, emailVerified |-> FALSE]

IdleRequest ==
  [ pc |-> "idle", serial |-> 0, cookie |-> 0, sid |-> 0, replay |-> FALSE, query |-> NoQuery,
    session |-> EmptySession, response |-> NoResponse, reads |-> 0,
    flow |-> EmptySession, cookieCleared |-> FALSE,
    profile |-> NoCanonical, link |-> 0, user |-> 0, via |-> None,
    sent |-> 0, result |-> NoResult ]

\* Rows present before the service starts (users may also come from the
\* e-mail sign-up routes): each is a state the tables can be in.
User(id, email, displayName, emailVerified) ==
  [id |-> id, email |-> email, displayName |-> displayName, emailVerified |-> emailVerified]
Link(id, userId, provider, providerUserId, at, rt) ==
  [id |-> id, userId |-> userId, providerId |-> provider, providerUserId |-> providerUserId,
   accessToken |-> at, refreshToken |-> rt]

InitialTables ==
  { [users |-> {}, links |-> {}],
    [users |-> {User(101, "a@example.com", "Ann", TRUE), User(102, "b@example.com", "Bob", TRUE)},
     links |-> {Link(201, 101, "github", "x1", 91, 92)}] }

\* ---------------------------------------------- native flow: JSON values
\* What googleResponse.json() yields: null, a string, or an object with some
\* keys (a key may be present with the value null).
NoPayload ==
  [type |-> "absent", keys |-> {}, error |-> None, sub |-> None, name |-> None,
   email |-> None, email_verified |-> FALSE]

\* The body res.send() was given: a value passed through, or an object built
\* by the handler with the keys error, data, refreshToken.
NoSent == [body |-> NoPayload, error |-> None, data |-> NoPayload, refreshToken |-> 0]

NoNative ==
  [ serial |-> 0, response |-> NoPayload, threw |-> FALSE, sent |-> NoSent,
    branch |-> None, user |-> 0, queries |-> {} ]

\* ------------------------------------------------- WebAuthn: request state
\* The ids of the two users of the second initial table.
WebAuthnUsers == {101, 102}

NoCredential == [challenge |-> 0, credential |-> 0, kind |-> None, origin |-> None, rpId |-> None]
NoRegistrationInfo == [credentialID |-> <<>>, credentialPublicKey |-> <<>>, counter |-> 0]

IdleWa ==
  [ pc |-> "idle", op |-> None, serial |-> 0, id |-> 0, credential |-> NoCredential,
    nickname |-> None, replay |-> FALSE,
    currentChallenge |-> 0, registrationInfo |-> NoRegistrationInfo,
    excludeCredentials |-> {}, challenge |-> 0, error |-> None ]

\* No call of createUser on its own yet.
NoCreation ==
  [ serial |-> 0, provider |-> None, profile |-> NoCanonical, options |-> NoOptions,
    branch |-> None, user |-> 0, error |-> None ]

\* The state of the parts a specification does not exercise.
OauthIdle ==
  /\ init = NoInit
  /\ req = [r \in Slots |-> IdleRequest]
  /\ sessions = <<>>
  /\ destroyed = {}
NativeIdle == native = NoNative
CreateIdle == creation = NoCreation
WebAuthnIdle ==
  /\ wa = [r \in Slots |-> IdleWa]
  /\ currentChallenge = [u \in WebAuthnUsers |-> 0]
  /\ authenticators = {}
  /\ verified = {}

Init ==
  /\ init = NoInit
  /\ req = [r \in Slots |-> IdleRequest]
  /\ started = 0
  /\ sessions = <<>>
  /\ destroyed = {}
  /\ \E t \in InitialTables : users = t.users /\ links = t.links
  /\ issued = {}
  /\ createdFor = {}
  /\ NativeIdle
  /\ CreateIdle
  /\ WebAuthnIdle

\* ------------------------------------------------------- session store
StoreSet(store, sid, sess) ==
  [s \in DOMAIN store \cup {sid} |-> IF s = sid THEN sess ELSE store[s]]

StoreDestroy(store, sid) ==
  [s \in DOMAIN store \ {sid} |-> store[s]]

\* express-session: the session named by the cookie when the store has it,
\* otherwise a new one under a fresh id (genid: uuidv4, never reused).
SessionIdFor(cookie, fresh) == IF cookie \in DOMAIN sessions THEN cookie ELSE fresh
SessionFor(cookie) == IF cookie \in DOMAIN sessions THEN sessions[cookie] ELSE EmptySession

Free(r) == req[r].pc \in {"idle", "done", "fault"}

\* sendError(res, code, { redirectTo }, true)
SendError(code, redirectTo) ==
  [ to |-> IF redirectTo = None THEN AUTH_CLIENT_URL ELSE redirectTo,
    error |-> code, errorDescription |-> code, provider |-> None, refreshToken |-> 0 ]

\* --------------------------------------------- GET /signin/provider/:provider
\* Outcome of the provider validation middleware: an error code, or "next".
ValidateProvider(provider) ==
  IF provider \notin DOMAIN grantConfig THEN "disabled-endpoint"
  ELSE IF MissingCredentials(grantConfig[provider]) THEN "invalid-oauth-configuration"
  ELSE "next"

\* The whole middleware chain of the initiating request: session middleware,
\* redirect url, provider validation, option validation, saving the query in
\* the session, and Grant's connect step (session.grant = { provider }).
\* The session is written to the store when the response ends; no middleware
\* of this chain destroys it. The request comes without a session cookie, so
\* the session middleware creates its session.
Initiate ==
  /\ started < MaxRequests
  /\ \E provider \in ProviderParams, redirectTo \in RedirectTargets,
        options \in QueryOptions, optionsValid \in BOOLEAN :
       LET n == started + 1
           sid == SessionIdFor(0, n)
           loaded == SessionFor(0)
           verdict == ValidateProvider(provider)
           error == IF verdict # "next" THEN verdict
                    ELSE IF ~optionsValid THEN "invalid-request" ELSE None
           saved == IF error # None THEN loaded
                    ELSE [provider |-> provider, options |-> options, redirectTo |-> redirectTo]
       IN /\ started' = n
          /\ sessions' = StoreSet(sessions, sid, saved)
          /\ init' = [ param |-> provider, sid |-> sid, reachedGrant |-> (error = None),
                       error |-> IF error # None THEN SendError(error, redirectTo).error ELSE None ]
  /\ UNCHANGED <<nativeVars, createVars, webauthnVars, req, destroyed, users, links, issued, createdFor>>

\* ------------------------------ ALL /signin/provider/:provider/callback
\* generateRedirectUrl(redirectTo, { refreshToken })
RedirectWithToken(redirectTo, token) ==
  [NoResult EXCEPT !.to = redirectTo, !.refreshToken = token]

\* sendErrorFromQuery(code, fallbackMessage), closed over query, provider
\* and redirectTo.
SendErrorFromQuery(code, fallbackMessage, query, provider, redirectTo) ==
  LET error == IF code # None THEN code
               ELSE IF query.error # None THEN query.error ELSE "invalid-request"
      errorDescription ==
        IF query.error_description # None THEN query.error_description
        ELSE IF query.error # None /\ query.error # error THEN query.error
        ELSE IF fallbackMessage # None THEN fallbackMessage ELSE "Unknown error"
  IN [ to |-> redirectTo, error |-> error, errorDescription |-> errorDescription,
       provider |-> provider, refreshToken |-> 0 ]

\* The response is sent: res.redirect(...). The request, its session object
\* and the locals the handler no longer uses are gone.
Respond(q, result) ==
  [q EXCEPT !.pc = "done", !.result = result, !.sent = @ + 1, !.serial = 0,
            !.cookie = 0, !.query = NoQuery, !.session = EmptySession,
            !.response = NoResponse, !.link = 0,
            !.profile = [NoCanonical EXCEPT !.id = q.profile.id]]

\* The error redirect of a request at its current position.
Fail(q, code, fallbackMessage) ==
  Respond(q, SendErrorFromQuery(code, fallbackMessage, q.query, q.flow.provider, q.flow.redirectTo))

\* The session middleware on the callback route: req.session is the stored
\* session of the cookie, or a new empty one. The cookie names a session
\* that is, or once was, in the store. The request takes the first slot
\* that serves no request.
CallbackReceive(r) ==
  /\ Free(r)
  /\ \A other \in Slots : other < r => ~Free(other)
  /\ started < MaxRequests
  /\ \E cookie \in DOMAIN sessions \cup destroyed, query \in CallbackQueries :
       LET n == started + 1 IN
       /\ started' = n
       /\ req' = [req EXCEPT ![r] =
                    [IdleRequest EXCEPT !.pc = "received", !.serial = n, !.cookie = cookie,
                       !.sid = SessionIdFor(cookie, n), !.query = query,
                       !.replay = (cookie \in destroyed),
                       !.session = SessionFor(cookie)]]
  /\ UNCHANGED <<nativeVars, createVars, webauthnVars, init, sessions, destroyed, users, links, issued, createdFor>>

\* Mutant: the session is not removed from the store.
DestroySession_kept(store, sid) == store

\* session.destroy(() => { res.clearCookie(SESSION_NAME); ... })
DestroySession(store, sid) == StoreDestroy(store, sid)

\* const { grant, options, redirectTo = ENV.AUTH_CLIENT_URL } = { ...session }
ReadFlowState(session) ==
  [session EXCEPT !.redirectTo = IF @ = None THEN AUTH_CLIENT_URL ELSE @]

\* Grant has finished the token exchange for a session that names a provider
\* and calls next(); the handler copies the session and destroys it.
CallbackDestroy(r) ==
  /\ req[r].pc = "received"
  /\ \E response \in IF req[r].session.provider = None THEN {NoResponse}
                     ELSE GrantResponses(req[r].serial) :
       req' = [req EXCEPT ![r] =
                 [@ EXCEPT !.pc = "destroyed", !.response = response, !.reads = @ + 1,
                           !.flow = ReadFlowState(req[r].session), !.cookieCleared = TRUE]]
  /\ sessions' = DestroySession(sessions, req[r].sid)
  /\ destroyed' = destroyed \cup {req[r].sid}
  /\ UNCHANGED <<nativeVars, createVars, webauthnVars, init, started, users, links, issued, createdFor>>

\* PROVIDERS_CONFIG[provider].profile(data): the canonical profile.
normaliseProfile(raw) ==
  [id |-> raw.id, displayName |-> raw.name, email |-> raw.email,
   emailVerified |-> raw.email_verified]

\* Lines 181-235, then createUser up to the first query of findOrCreateUser.
\* The profile normaliser is awaited outside the try block: if it throws the
\* handler's promise rejects and no response is sent.
CallbackProcess(r) ==
  /\ req[r].pc = "destroyed"
  /\ LET q == req[r]
         response == q.response
         profile == normaliseProfile(response.profile)
     IN \/ /\ q.flow.provider = None
           /\ req' = [req EXCEPT ![r] = Fail(q, "internal-error", None)]
        \/ /\ q.flow.provider # None
           /\ response = NoResponse
           /\ req' = [req EXCEPT ![r] = Fail(q, "internal-error", None)]
        \/ /\ q.flow.provider # None
           /\ response # NoResponse
           /\ response.profile = NoProfile
           /\ req' = [req EXCEPT ![r] = Fail(q, "internal-error", response.error)]
        \/ /\ q.flow.provider # None
           /\ response # NoResponse
           /\ response.profile # NoProfile
           /\ \/ req' = [req EXCEPT ![r] = [q EXCEPT !.pc = "fault", !.serial = 0, !.cookie = 0,
                                              !.query = NoQuery, !.session = EmptySession,
                                              !.response = NoResponse]]
              \/ /\ response.access_token = 0 \/ response.refresh_token = 0
                 /\ req' = [req EXCEPT ![r] =
                              Fail(q, None, "Grant did not get an accessToken and refreshToken")]
              \/ /\ response.access_token # 0 /\ response.refresh_token # 0
                 /\ profile.id = None
                 /\ req' = [req EXCEPT ![r] = Fail(q, None, "Missing id in profile")]
              \/ /\ response.access_token # 0 /\ response.refresh_token # 0
                 /\ profile.id # None
                 /\ req' = [req EXCEPT ![r] = [q EXCEPT !.pc = "lookup", !.profile = profile]]
  /\ UNCHANGED <<nativeVars, createVars, webauthnVars, init, started, sessions, destroyed, users, links, issued, createdFor>>

\* ------------------------------------------------------ account resolution
Identity(q) == <<q.flow.provider, q.profile.id>>

\* Mutant: the link query filters on the provider alone.
authUserProviders_byProvider(provider, providerUserId) ==
  {l \in links : l.providerId = provider}

\* gqlSdk.authUserProviders({ provider, providerUserId })
authUserProviders(provider, providerUserId) ==
  {l \in links : l.providerId = provider /\ l.providerUserId = providerUserId}

\* getUserByEmail(email)
getUserByEmail(email) == {u \in users : u.email = email}

\* The unique constraint of auth.user_providers on (provider_id,
\* provider_user_id), and of auth.users on email.
LinkConflict(provider, providerUserId) ==
  \E l \in links : l.providerId = provider /\ l.providerUserId = providerUserId
EmailConflict(email) == email # None /\ \E u \in users : u.email = email

\* ENV: the configured defaults for new users.
AUTH_LOCALE_DEFAULT == "en"
AUTH_LOCALES_ALLOWED == {"en", "fr"}
AUTH_USER_DEFAULT_ROLE == "user"
AUTH_USER_DEFAULT_ALLOWED_ROLES == <<"user", "me">>

\* options?.allowedRoles: absent, an array of role names, or a string (a
\* sequence of role names and "," separators).
NoRoles == [type |-> "absent", value |-> <<>>]
RoleArray(names) == [type |-> "array", value |-> names]
RoleString(text) == [type |-> "string", value |-> text]

\* record?.key: the value of an optional key, or its absence.
Field(record, key, absent) == IF key \in DOMAIN record THEN record[key] ELSE absent

\* a || b on strings: undefined, null and '' are falsy.
Or(a, b) == IF a # None /\ a # "" THEN a ELSE b

\* text.split(','): the role names between the separators; two adjacent
\* separators, or one at either end, give an empty name.
RECURSIVE split(_)
split(text) ==
  IF text = <<>> THEN <<"">>
  ELSE IF Head(text) = "," THEN <<"">> \o split(Tail(text))
  ELSE IF Len(text) = 1 THEN <<Head(text)>>
  ELSE <<Head(text)>> \o split(SubSeq(text, 3, Len(text)))

\* emailValidator.validateAsync(email): a valid e-mail is returned as it is.
emailValidator(email) == email

\* localeValidator.validate(locale): an error unless the locale is one of
\* the allowed locales; an absent locale validates to the default.
localeValidator(locale) ==
  [ error |-> locale # None /\ locale \notin AUTH_LOCALES_ALLOWED,
    value |-> IF locale = None THEN AUTH_LOCALE_DEFAULT ELSE locale ]

\* Mutant: the name the provider gave is preferred to the caller's option,
\* and a locale that is not allowed is stored as it came.
transformOauthProfile_profileFirst(id, normalised, options) ==
  LET email == emailValidator(normalised.email)
      allowedRoles == Field(options, "allowedRoles", NoRoles)
  IN [ id |-> id, email |-> email,
       displayName |-> Or(normalised.displayName, Or(Field(options, "displayName", None), email)),
       emailVerified |-> normalised.emailVerified,
       locale |-> Or(Or(Field(options, "locale", None), Field(normalised, "locale", None)),
                     AUTH_LOCALE_DEFAULT),
       defaultRole |-> Or(Field(options, "defaultRole", None), AUTH_USER_DEFAULT_ROLE),
       roles |-> IF allowedRoles.type = "array" THEN allowedRoles.value
                 ELSE IF allowedRoles.type = "string" /\ allowedRoles.value # <<>>
                 THEN split(allowedRoles.value)
                 ELSE AUTH_USER_DEFAULT_ALLOWED_ROLES,
       metadata |-> Or(Field(options, "metadata", None), "{}") ]

\* transformOauthProfile: the row of the new user (the avatarUrl and
\* passwordHash columns are left out). The display name is the option of the
\* caller, else the name the provider gave, else the e-mail; the locale is
\* the option's, else the profile's, if it is allowed, else the default; the
\* roles are the option's, else the defaults.
transformOauthProfile(id, normalised, options) ==
  LET email == emailValidator(normalised.email)
      customLocale == localeValidator(Or(Field(options, "locale", None),
                                         Field(normalised, "locale", None)))
      locale == IF ~customLocale.error THEN customLocale.value ELSE AUTH_LOCALE_DEFAULT
      displayName == Or(Field(options, "displayName", None), Or(normalised.displayName, email))
      emailVerified == normalised.emailVerified
      given == Field(options, "allowedRoles", NoRoles)
      allowedRoles == IF given.type = "array" THEN given.value
                      ELSE IF given.type = "string" /\ given.value # <<>>
                      THEN split(given.value)
                      ELSE AUTH_USER_DEFAULT_ALLOWED_ROLES
  IN [ id |-> id, email |-> email, displayName |-> displayName,
       emailVerified |-> emailVerified,
       locale |-> locale,
       defaultRole |-> Or(Field(options, "defaultRole", None), AUTH_USER_DEFAULT_ROLE),
       roles |-> allowedRoles,
       metadata |-> Or(Field(options, "metadata", None), "{}") ]

\* Mutant: the e-mail match is tried before the link match.
LookupLink_emailFirst(r) ==
  /\ req[r].pc = "lookup"
  /\ LET q == req[r] IN
     req' = [req EXCEPT ![r] =
               [q EXCEPT !.pc = IF q.profile.email # None THEN "email" ELSE "create"]]
  /\ UNCHANGED <<nativeVars, createVars, webauthnVars, init, started, sessions, destroyed, users, links, issued, createdFor>>

\* findOrCreateUser, lines 171-191: the link query returns.
LookupLink(r) ==
  /\ req[r].pc = "lookup"
  /\ LET q == req[r]
         found == authUserProviders(q.flow.provider, q.profile.id)
     IN \/ \E authUserProvider \in found :
             req' = [req EXCEPT ![r] = [q EXCEPT !.pc = "update", !.link = authUserProvider.id,
                                                 !.user = authUserProvider.userId]]
        \/ /\ found = {}
           /\ req' = [req EXCEPT ![r] =
                        [q EXCEPT !.pc = IF q.profile.email # None THEN "email" ELSE "create"]]
  /\ UNCHANGED <<nativeVars, createVars, webauthnVars, init, started, sessions, destroyed, users, links, issued, createdFor>>

\* gqlSdk.updateAuthUserprovider({ id, authUserProvider: { accessToken, refreshToken } })
UpdateLink(r) ==
  /\ req[r].pc = "update"
  /\ links' = { IF l.id = req[r].link
                THEN [l EXCEPT !.accessToken = req[r].response.access_token,
                               !.refreshToken = req[r].response.refresh_token]
                ELSE l : l \in links }
  /\ req' = [req EXCEPT ![r] = [@ EXCEPT !.pc = "token", !.via = "update"]]
  /\ UNCHANGED <<nativeVars, createVars, webauthnVars, init, started, sessions, destroyed, users, issued, createdFor>>

\* Mutant: only a verified e-mail links to an existing user.
LookupEmail_verifiedOnly(r) ==
  /\ req[r].pc = "email"
  /\ LET q == req[r]
         found == IF q.profile.emailVerified THEN {u \in users : u.email = q.profile.email} ELSE {}
     IN \/ \E user \in found :
             req' = [req EXCEPT ![r] = [q EXCEPT !.pc = "insertLink", !.user = user.id]]
        \/ /\ found = {}
           /\ req' = [req EXCEPT ![r] = [q EXCEPT !.pc = "create"]]
  /\ UNCHANGED <<nativeVars, createVars, webauthnVars, init, started, sessions, destroyed, users, links, issued, createdFor>>

\* findOrCreateUser, lines 193-196: getUserByEmail returns.
LookupEmail(r) ==
  /\ req[r].pc = "email"
  /\ LET q == req[r]
         found == getUserByEmail(q.profile.email)
     IN \/ \E user \in found :
             req' = [req EXCEPT ![r] = [q EXCEPT !.pc = "insertLink", !.user = user.id]]
        \/ /\ found = {}
           /\ req' = [req EXCEPT ![r] = [q EXCEPT !.pc = "create"]]
  /\ UNCHANGED <<nativeVars, createVars, webauthnVars, init, started, sessions, destroyed, users, links, issued, createdFor>>

\* gqlSdk.insertUserProviderToUser: the row is inserted, or the store
\* rejects it and the exception reaches the catch block of the handler.
InsertLink(r) ==
  /\ req[r].pc = "insertLink"
  /\ LET q == req[r] IN
     IF LinkConflict(q.flow.provider, q.profile.id)
     THEN /\ req' = [req EXCEPT ![r] = Fail(q, None, "Uniqueness violation")]
          /\ links' = links
     ELSE /\ links' = links \cup { Link(q.serial, q.user, q.flow.provider, q.profile.id,
                                        q.response.access_token, q.response.refresh_token) }
          /\ req' = [req EXCEPT ![r] = [q EXCEPT !.pc = "token", !.via = "link"]]
  /\ UNCHANGED <<nativeVars, createVars, webauthnVars, init, started, sessions, destroyed, users, issued, createdFor>>

\* Mutant: the user is inserted first and its link in a second mutation, so
\* a rejected link leaves the user behind.
InsertUser_separateLink(r) ==
  /\ req[r].pc = "create"
  /\ LET q == req[r] IN
     IF q.profile.email # None /\ \E u \in users : u.email = q.profile.email
     THEN /\ req' = [req EXCEPT ![r] = Fail(q, None, "Uniqueness violation")]
          /\ UNCHANGED <<users, links, createdFor>>
     ELSE /\ users' = users \cup {User(q.serial, q.profile.email, q.profile.email,
                                       q.profile.emailVerified)}
          /\ createdFor' = createdFor \cup {<<q.serial, q.flow.provider, q.profile.id>>}
          /\ IF \E l \in links : <<l.providerId, l.providerUserId>> = <<q.flow.provider, q.profile.id>>
             THEN /\ links' = links
                  /\ req' = [req EXCEPT ![r] = Fail(q, None, "Uniqueness violation")]
             ELSE /\ links' = links \cup { Link(q.serial, q.serial, q.flow.provider, q.profile.id,
                                                q.response.access_token, q.response.refresh_token) }
                  /\ req' = [req EXCEPT ![r] =
                               [q EXCEPT !.pc = "token", !.user = q.serial, !.via = "create"]]
  /\ UNCHANGED <<nativeVars, createVars, webauthnVars, init, started, sessions, destroyed, issued>>

\* insertUser({ ...userInput, userProviders: { data: [...] } }): one
\* mutation inserts the user and its first link, or nothing.
InsertUser(r) ==
  /\ req[r].pc = "create"
  /\ LET q == req[r] IN
     IF LinkConflict(q.flow.provider, q.profile.id) \/ EmailConflict(q.profile.email)
     THEN /\ req' = [req EXCEPT ![r] = Fail(q, None, "Uniqueness violation")]
          /\ UNCHANGED <<users, links, createdFor>>
     ELSE /\ users' = users \cup {transformOauthProfile(q.serial, q.profile, q.flow.options)}
          /\ createdFor' = createdFor \cup {<<q.serial, q.flow.provider, q.profile.id>>}
          /\ links' = links \cup { Link(q.serial, q.serial, q.flow.provider, q.profile.id,
                                        q.response.access_token, q.response.refresh_token) }
          /\ req' = [req EXCEPT ![r] = [q EXCEPT !.pc = "token", !.user = q.serial, !.via = "create"]]
  /\ UNCHANGED <<nativeVars, createVars, webauthnVars, init, started, sessions, destroyed, issued>>

\* createUser, line 253: getNewRefreshToken(user.id) inserts the application
\* refresh token, or fails; then lines 245-256 of the handler.
IssueToken(r) ==
  /\ req[r].pc = "token"
  /\ LET q == req[r] IN
     \/ /\ issued' = issued \cup {[userId |-> q.user, refreshToken |-> q.serial]}
        /\ req' = [req EXCEPT ![r] = Respond(q, RedirectWithToken(q.flow.redirectTo, q.serial))]
     \/ /\ issued' = issued
        /\ req' = [req EXCEPT ![r] = Fail(q, None, "Could not insert the refresh token")]
  /\ UNCHANGED <<nativeVars, createVars, webauthnVars, init, started, sessions, destroyed, users, links, createdFor>>

Next ==
  \/ Initiate
  \/ \E r \in Slots :
       \/ CallbackReceive(r)
       \/ CallbackDestroy(r)
       \/ CallbackProcess(r)
       \/ LookupLink(r)
       \/ UpdateLink(r)
       \/ LookupEmail(r)
       \/ InsertLink(r)
       \/ InsertUser(r)
       \/ IssueToken(r)

Spec == Init /\ [][Next]_vars

\* ======================================================= native flow
\* POST /native/google_token: signInWithGoogleAccessToken. One request, no
\* session; the handler runs here without interleaving.
UserDataKeys ==
  {"sub", "name", "given_name", "family_name", "picture", "email", "email_verified", "locale"}

\* A userinfo object that carries the raw profile p.
UserData(p) ==
  [type |-> "object", keys |-> UserDataKeys, error |-> None, sub |-> p.id, name |-> p.name,
   email |-> p.email, email_verified |-> p.email_verified]

\* Bodies the userinfo endpoint may answer with: one that is no JSON, null, a
\* string, error objects with and without error_description, an object
\* without its locale, an object with the keys of both shapes, and userinfo
\* objects.
GoogleResponses ==
  { [NoPayload EXCEPT !.type = "not-json"],
    [NoPayload EXCEPT !.type = "null"],
    [NoPayload EXCEPT !.type = "string"],
    [NoPayload EXCEPT !.type = "object", !.keys = {"error"}, !.error = "invalid_token"],
    [NoPayload EXCEPT !.type = "object", !.keys = {"error", "error_description"},
                      !.error = "invalid_request"],
    [NoPayload EXCEPT !.type = "object", !.keys = UserDataKeys \ {"locale"}, !.sub = "x1",
                      !.name = "Ann", !.email = "a@example.com", !.email_verified = TRUE],
    [NoPayload EXCEPT !.type = "object", !.keys = UserDataKeys \cup {"error", "error_description"},
                      !.error = "invalid_request", !.sub = "x1", !.name = "Ann",
                      !.email = "a@example.com", !.email_verified = TRUE] }
  \cup {UserData(p) : p \in RawProfiles}

\* typequards.ts: the keys are looked up with `in`, their values are not read.
isUserData(data) == data.type = "object" /\ UserDataKeys \subseteq data.keys
isErrorResponse(data) == data.type = "object" /\ {"error", "error_description"} \subseteq data.keys

\* normaliseProfile of native.ts: sub -> id, name -> displayName.
nativeNormaliseProfile(data) ==
  [id |-> data.sub, displayName |-> data.name, email |-> data.email,
   emailVerified |-> data.email_verified]

\* What a call of createUser leaves: the tables, the user it returned, the
\* branch it took, the store operations it ran, its refresh token or the
\* message of its exception.
NoOutcome ==
  [ error |-> None, user |-> 0, branch |-> None, queries |-> {}, refreshToken |-> 0,
    users |-> users, links |-> links, issued |-> issued, createdFor |-> createdFor ]

\* findOrCreateUser, run from its first line to its return without another
\* request in between; n numbers the rows it inserts.
findOrCreateUser(provider, profile, tokens, options, n) ==
  LET providerUserId == profile.id
      found == authUserProviders(provider, providerUserId)
      byEmail == IF profile.email # None THEN getUserByEmail(profile.email) ELSE {}
  IN IF providerUserId = None
     THEN [NoOutcome EXCEPT !.error = "Missing id in profile"]
     ELSE IF found # {}
     THEN LET authUserProvider == CHOOSE l \in found : TRUE IN
          [NoOutcome EXCEPT
             !.user = authUserProvider.userId, !.branch = "update",
             !.queries = {"authUserProviders", "updateAuthUserprovider"},
             !.links = { IF l.id = authUserProvider.id
                         THEN [l EXCEPT !.accessToken = tokens.accessToken,
                                        !.refreshToken = tokens.refreshToken]
                         ELSE l : l \in links }]
     ELSE IF byEmail # {}
     THEN LET user == CHOOSE u \in byEmail : TRUE IN
          [NoOutcome EXCEPT
             !.user = user.id, !.branch = "link",
             !.queries = {"authUserProviders", "getUserByEmail", "insertUserProviderToUser"},
             !.links = links \cup { Link(n, user.id, provider, providerUserId,
                                         tokens.accessToken, tokens.refreshToken) }]
     ELSE [NoOutcome EXCEPT
             !.user = n, !.branch = "create",
             !.queries = {"authUserProviders", "insertUser"}
                           \cup (IF profile.email # None THEN {"getUserByEmail"} ELSE {}),
             !.users = users \cup {transformOauthProfile(n, profile, options)},
             !.createdFor = createdFor \cup {<<n, provider, providerUserId>>},
             !.links = links \cup { Link(n, n, provider, providerUserId,
                                         tokens.accessToken, tokens.refreshToken) }]

\* createUser: findOrCreateUser, then getNewRefreshToken(user.id), which
\* inserts the application refresh token unless the store fails.
createUser(provider, tokens, profile, options, n, minted) ==
  LET found == findOrCreateUser(provider, profile, tokens, options, n) IN
  IF found.error # None THEN found
  ELSE IF ~minted
  THEN [found EXCEPT !.error = "Could not insert the refresh token",
                     !.queries = @ \cup {"getNewRefreshToken"}]
  ELSE [found EXCEPT !.refreshToken = n,
                     !.queries = @ \cup {"getNewRefreshToken"},
                     !.issued = issued \cup {[userId |-> found.user, refreshToken |-> n]}]

\* The callback handler's call: the provider of the flow, both tokens of the
\* Grant response, the options of the session.
CallbackCreateUser(provider, accessToken, refreshToken, profile, options, n, minted) ==
  createUser(provider, [accessToken |-> accessToken, refreshToken |-> refreshToken],
             profile, options, n, minted)

\* Mutant: the native flow files its links under a provider id of its own.
NativeCreateUser_ownProvider(accessToken, profile, n, minted) ==
  createUser("google-native", [accessToken |-> accessToken, refreshToken |-> 0],
             profile, NoOptions, n, minted)

\* The native handler's call: provider 'google', the access token of the
\* body, no refresh token, no options.
NativeCreateUser(accessToken, profile, n, minted) ==
  createUser("google", [accessToken |-> accessToken, refreshToken |-> 0],
             profile, NoOptions, n, minted)

\* The whole handler for one request.
SignInWithGoogleAccessToken ==
  /\ started < MaxRequests
  /\ \E userDataOrError \in GoogleResponses, minted \in BOOLEAN :
       LET n == started + 1
           request == [NoNative EXCEPT !.serial = n, !.response = userDataOrError]
           out == NativeCreateUser(n, nativeNormaliseProfile(userDataOrError), n, minted)
       IN /\ started' = n
          /\ IF userDataOrError.type = "not-json"
             THEN /\ native' = [request EXCEPT !.threw = TRUE]
                  /\ UNCHANGED <<users, links, issued, createdFor>>
             ELSE IF isErrorResponse(userDataOrError)
             THEN /\ native' = [request EXCEPT !.sent = [NoSent EXCEPT !.body = userDataOrError]]
                  /\ UNCHANGED <<users, links, issued, createdFor>>
             ELSE IF ~isUserData(userDataOrError)
             THEN /\ native' = [request EXCEPT !.sent =
                                  [NoSent EXCEPT !.error = "unknown format for google response!",
                                                 !.data = userDataOrError]]
                  /\ UNCHANGED <<users, links, issued, createdFor>>
             ELSE /\ native' = [request EXCEPT
                                  !.sent = IF out.error # None
                                           THEN [NoSent EXCEPT !.error = out.error]
                                           ELSE [NoSent EXCEPT !.refreshToken = out.refreshToken],
                                  !.branch = out.branch, !.user = out.user,
                                  !.queries = out.queries]
                  /\ users' = out.users
                  /\ links' = out.links
                  /\ issued' = out.issued
                  /\ createdFor' = out.createdFor
  /\ UNCHANGED <<oauthVars, createVars, webauthnVars>>

InitNative ==
  /\ started = 0
  /\ \E t \in InitialTables : users = t.users /\ links = t.links
  /\ issued = {}
  /\ createdFor = {}
  /\ OauthIdle
  /\ NativeIdle
  /\ CreateIdle
  /\ WebAuthnIdle

NextNative == SignInWithGoogleAccessToken

NativeSpec == InitNative /\ [][NextNative]_vars

\* ============================================= createUser on its own
\* One call of createUser as the callback makes it (index.ts:237-243), run
\* without another request in between, for profiles that carry a locale and
\* for each kind of registration options.
Profile(id, displayName, email, emailVerified, locale) ==
  [id |-> id, displayName |-> displayName, email |-> email,
   emailVerified |-> emailVerified, locale |-> locale]

RegistrationOptions(displayName, locale, defaultRole, allowedRoles, metadata) ==
  [present |-> TRUE, displayName |-> displayName, locale |-> locale,
   defaultRole |-> defaultRole, allowedRoles |-> allowedRoles, metadata |-> metadata]

\* The calls tried: a provider, the profile it gave and the options of the
\* session. "de" and "xx" are locales that are not allowed.
CreateCalls ==
  { <<"github", Profile("42", None, "a@example.com", TRUE, None), NoOptions>>,
    <<"github", Profile("42", "Ann", "a@example.com", FALSE, "fr"),
      RegistrationOptions("Opt", None, "editor", RoleArray(<<"editor", "user">>), "m")>>,
    <<"github", Profile("43", "Cee", "c@example.com", TRUE, "de"),
      RegistrationOptions(None, None, None, RoleString(<<"editor", ",", "user">>), None)>>,
    <<"google", Profile("43", "Cee", "c@example.com", TRUE, "fr"),
      RegistrationOptions(None, "xx", None, RoleArray(<<>>), None)>>,
    <<"google", Profile("44", None, None, FALSE, "de"),
      RegistrationOptions(None, "fr", "editor", NoRoles, None)>>,
    <<"github", Profile("x1", "Ann", "d@example.com", TRUE, "fr"), NoOptions>>,
    <<"google", Profile("45", "Bob", "b@example.com", TRUE, None),
      RegistrationOptions("Opt", "en", None, RoleString(<<>>), None)>>,
    <<"github", Profile(None, "Ann", "e@example.com", TRUE, None), NoOptions>> }

CallCreateUser ==
  /\ started < MaxRequests
  /\ \E call \in CreateCalls, minted \in BOOLEAN :
       LET n == started + 1
           out == CallbackCreateUser(call[1], n, n, call[2], call[3], n, minted)
       IN /\ started' = n
          /\ creation' = [ serial |-> n, provider |-> call[1], profile |-> call[2],
                           options |-> call[3], branch |-> out.branch, user |-> out.user,
                           error |-> out.error ]
          /\ users' = out.users
          /\ links' = out.links
          /\ issued' = out.issued
          /\ createdFor' = out.createdFor
  /\ UNCHANGED <<oauthVars, nativeVars, webauthnVars>>

InitCreate ==
  /\ started = 0
  /\ \E t \in InitialTables : users = t.users /\ links = t.links
  /\ issued = {}
  /\ createdFor = {}
  /\ OauthIdle
  /\ NativeIdle
  /\ CreateIdle
  /\ WebAuthnIdle

NextCreate == CallCreateUser

CreateSpec == InitCreate /\ [][NextCreate]_vars

\* ================================================ WebAuthn registration
\* utils/webauthn.ts. A handler advances one step per await; requests of
\* several users, and of one user, run concurrently.
\* ENV.AUTH_WEBAUTHN_RP_ORIGINS and getWebAuthnRelyingParty().
AUTH_WEBAUTHN_RP_ORIGINS == {"https://app"}
WebAuthnRelyingParty == "auth-host"

\* An id the users table does not have.
UnknownUser == 999

\* Credentials an authenticator can make for one challenge.
CredentialKeys == {1, 2}

\* RegistrationCredentialJSON: the challenge its client data names, which
\* credential it is, and what its verification comes to: a response in
\* order; one whose attestation does not verify; one that verifies without
\* registration info; one that cannot be parsed; ones in order but made for
\* another origin or another relying party.
Credential(challenge, key, kind, origin, rpId) ==
  [challenge |-> challenge, credential |-> key, kind |-> kind, origin |-> origin, rpId |-> rpId]

CredentialsFor(challenge) ==
  { Credential(challenge, k, "valid", "https://app", WebAuthnRelyingParty) : k \in CredentialKeys }
  \cup { Credential(challenge, 1, kind, "https://app", WebAuthnRelyingParty) :
           kind \in {"unverified", "no-info", "malformed"} }
  \cup { Credential(challenge, 1, "valid", "https://evil", WebAuthnRelyingParty),
         Credential(challenge, 1, "valid", "https://app", "other-host") }

Nicknames == {None, "key"}

\* The result of the verification primitive.
Threw == [threw |-> TRUE, verified |-> FALSE, hasInfo |-> FALSE, registrationInfo |-> NoRegistrationInfo]

\* verifyRegistrationResponse of @simplewebauthn/server: throws on a response
\* it cannot parse and on a challenge, origin or relying party other than
\* the expected one; otherwise reports whether the attestation verified, with
\* the registration info of the credential.
verifyRegistrationResponse(credential, expectedChallenge, expectedOrigin, expectedRPID) ==
  IF \/ credential.kind = "malformed"
     \/ credential.challenge # expectedChallenge
     \/ credential.origin \notin expectedOrigin
     \/ credential.rpId # expectedRPID
  THEN Threw
  ELSE IF credential.kind = "unverified" THEN [Threw EXCEPT !.threw = FALSE]
  ELSE IF credential.kind = "no-info" THEN [Threw EXCEPT !.threw = FALSE, !.verified = TRUE]
  ELSE [ threw |-> FALSE, verified |-> TRUE, hasInfo |-> TRUE,
         registrationInfo |->
           [ credentialID |-> <<credential.challenge, credential.credential>>,
             credentialPublicKey |-> <<"key", credential.challenge, credential.credential>>,
             counter |-> 0 ] ]

\* credentialId.toString('base64url') and Buffer.from(credentialId, 'base64url')
ToBase64Url(bytes) == <<"base64url", bytes>>
FromBase64Url(text) == text[2]
\* Buffer.from('\\x' + credentialPublicKey.toString('hex')).toString()
ToHexLiteral(bytes) == <<"\\x", "hex", bytes>>

Authenticator(id, userId, credentialId, credentialPublicKey, counter, nickname) ==
  [ id |-> id, userId |-> userId, credentialId |-> credentialId,
    credentialPublicKey |-> credentialPublicKey, counter |-> counter, nickname |-> nickname ]

\* Authenticators registered before the service starts.
InitialAuthenticators ==
  { {}, {Authenticator(301, 101, ToBase64Url(<<0, 1>>), ToHexLiteral(<<"key", 0, 1>>), 0, None)} }

WaFree(r) == wa[r].pc \in {"idle", "done"}

\* The function returns, or throws Error(error); its locals are gone.
WaReturn(q, error) ==
  [IdleWa EXCEPT !.pc = "done", !.op = q.op, !.id = q.id, !.error = error,
                 !.replay = q.replay,
                 !.challenge = IF error = None THEN q.challenge ELSE 0]

\* generateWebAuthnRegistrationOptions, lines 21-33: getUserAuthenticators
\* returns, the options are generated with a new challenge.
GetUserAuthenticators(r) ==
  /\ WaFree(r)
  /\ \A other \in Slots : other < r => ~WaFree(other)
  /\ started < MaxRequests
  /\ \E id \in WebAuthnUsers :
       LET n == started + 1 IN
       /\ started' = n
       /\ wa' = [wa EXCEPT ![r] =
                   [IdleWa EXCEPT !.pc = "generated", !.op = "generate", !.serial = n, !.id = id,
                      !.excludeCredentials =
                        {FromBase64Url(a.credentialId) : a \in {a \in authenticators : a.userId = id}},
                      !.challenge = n]]
  /\ UNCHANGED <<oauthVars, nativeVars, createVars, users, links, issued, createdFor,
                 currentChallenge, authenticators, verified>>

\* Mutant: a challenge that is still outstanding is not overwritten.
UpdateUserChallenge_keepsOutstanding(r) ==
  /\ wa[r].pc = "generated"
  /\ currentChallenge' = [currentChallenge EXCEPT ![wa[r].id] =
                            IF @ = 0 THEN wa[r].challenge ELSE @]
  /\ verified' = {v \in verified : v[1] # wa[r].id}
  /\ wa' = [wa EXCEPT ![r] = WaReturn(wa[r], None)]
  /\ UNCHANGED <<oauthVars, nativeVars, createVars, started, users, links, issued, createdFor, authenticators>>

\* lines 35-40: updateUserChallenge stores the challenge, the options are
\* returned.
UpdateUserChallenge(r) ==
  /\ wa[r].pc = "generated"
  /\ currentChallenge' = [currentChallenge EXCEPT ![wa[r].id] = wa[r].challenge]
  /\ verified' = {v \in verified : v[1] # wa[r].id}
  /\ wa' = [wa EXCEPT ![r] = WaReturn(wa[r], None)]
  /\ UNCHANGED <<oauthVars, nativeVars, createVars, started, users, links, issued, createdFor, authenticators>>

\* Mutant: a user without a stored challenge is not turned away.
GetUserChallenge_noChallengeCheck(r) ==
  /\ WaFree(r)
  /\ \A other \in Slots : other < r => ~WaFree(other)
  /\ started < MaxRequests
  /\ \E id \in WebAuthnUsers \cup {UnknownUser}, challenge \in 1..started,
        nickname \in Nicknames :
       \E credential \in CredentialsFor(challenge) :
         LET n == started + 1
             q == [IdleWa EXCEPT !.op = "verify", !.serial = n, !.id = id,
                                 !.credential = credential, !.nickname = nickname,
                                 !.replay = (<<id, credential>> \in verified)]
         IN /\ started' = n
            /\ wa' = [wa EXCEPT ![r] =
                        IF id \notin {u.id : u \in users} THEN WaReturn(q, "user-not-found")
                        ELSE [q EXCEPT !.pc = "verify", !.currentChallenge = currentChallenge[id]]]
  /\ UNCHANGED <<oauthVars, nativeVars, createVars, users, links, issued, createdFor,
                 currentChallenge, authenticators, verified>>

\* verifyWebAuthnRegistration, lines 48-58: getUserChallenge returns. The
\* credential is a response to a challenge issued earlier.
GetUserChallenge(r) ==
  /\ WaFree(r)
  /\ \A other \in Slots : other < r => ~WaFree(other)
  /\ started < MaxRequests
  /\ \E id \in WebAuthnUsers \cup {UnknownUser}, challenge \in 1..started,
        nickname \in Nicknames :
       \E credential \in CredentialsFor(challenge) :
         LET n == started + 1
             q == [IdleWa EXCEPT !.op = "verify", !.serial = n, !.id = id,
                                 !.credential = credential, !.nickname = nickname,
                                 !.replay = (<<id, credential>> \in verified)]
         IN /\ started' = n
            /\ wa' = [wa EXCEPT ![r] =
                        IF id \notin {u.id : u \in users} THEN WaReturn(q, "user-not-found")
                        ELSE IF currentChallenge[id] = 0 THEN WaReturn(q, "invalid-request")
                        ELSE [q EXCEPT !.pc = "verify", !.currentChallenge = currentChallenge[id]]]
  /\ UNCHANGED <<oauthVars, nativeVars, createVars, users, links, issued, createdFor,
                 currentChallenge, authenticators, verified>>

\* Mutant: the response is checked against the challenge it names itself.
ExpectedChallenge_ofCredential(q) == q.credential.challenge

\* expectedChallenge: currentChallenge, as read from the user.
ExpectedChallenge(q) == q.currentChallenge

\* lines 60-86: verifyRegistrationResponse returns or throws.
VerifyRegistrationResponse(r) ==
  /\ wa[r].pc = "verify"
  /\ LET q == wa[r]
         verification == verifyRegistrationResponse(q.credential, ExpectedChallenge(q),
                                                    AUTH_WEBAUTHN_RP_ORIGINS, WebAuthnRelyingParty)
     IN wa' = [wa EXCEPT ![r] =
                 IF verification.threw THEN WaReturn(q, "invalid-webauthn-authenticator")
                 ELSE IF ~verification.verified THEN WaReturn(q, "invalid-webauthn-verification")
                 ELSE IF ~verification.hasInfo THEN WaReturn(q, "invalid-webauthn-verification")
                 ELSE [q EXCEPT !.pc = "insert", !.registrationInfo = verification.registrationInfo]]
  /\ UNCHANGED <<oauthVars, nativeVars, createVars, started, users, links, issued, createdFor,
                 currentChallenge, authenticators, verified>>

\* The unique constraint of auth.user_authenticators on credential_id.
CredentialConflict(credentialId) == \E a \in authenticators : a.credentialId = credentialId

\* lines 88-108: addUserAuthenticator inserts the row, or the store rejects
\* it and the function throws.
AddUserAuthenticator(r) ==
  /\ wa[r].pc = "insert"
  /\ LET q == wa[r]
         newAuthenticator ==
           Authenticator(q.serial, q.id, ToBase64Url(q.registrationInfo.credentialID),
                         ToHexLiteral(q.registrationInfo.credentialPublicKey),
                         q.registrationInfo.counter, q.nickname)
     IN IF CredentialConflict(newAuthenticator.credentialId)
        THEN /\ authenticators' = authenticators
             /\ wa' = [wa EXCEPT ![r] = WaReturn(q, "Impossible to insert new authenticator")]
        ELSE /\ authenticators' = authenticators \cup {newAuthenticator}
             /\ wa' = [wa EXCEPT ![r] = [q EXCEPT !.pc = "clear"]]
  /\ UNCHANGED <<oauthVars, nativeVars, createVars, started, users, links, issued, createdFor,
                 currentChallenge, verified>>

\* Mutant: the challenge stays on the user.
UpdateUser_keepsChallenge(r) ==
  /\ wa[r].pc = "clear"
  /\ currentChallenge' = currentChallenge
  /\ verified' = verified \cup {<<wa[r].id, wa[r].credential>>}
  /\ wa' = [wa EXCEPT ![r] = WaReturn(wa[r], None)]
  /\ UNCHANGED <<oauthVars, nativeVars, createVars, started, users, links, issued, createdFor, authenticators>>

\* lines 110-115: updateUser({ currentChallenge: null }); the function returns.
UpdateUser(r) ==
  /\ wa[r].pc = "clear"
  /\ currentChallenge' = [currentChallenge EXCEPT ![wa[r].id] = 0]
  /\ verified' = verified \cup {<<wa[r].id, wa[r].credential>>}
  /\ wa' = [wa EXCEPT ![r] = WaReturn(wa[r], None)]
  /\ UNCHANGED <<oauthVars, nativeVars, createVars, started, users, links, issued, createdFor, authenticators>>

InitWebAuthn ==
  /\ started = 0
  /\ users = {User(101, "a@example.com", "Ann", TRUE), User(102, "b@example.com", "Bob", TRUE)}
  /\ links = {}
  /\ issued = {}
  /\ createdFor = {}
  /\ OauthIdle
  /\ NativeIdle
  /\ CreateIdle
  /\ wa = [r \in Slots |-> IdleWa]
  /\ currentChallenge = [u \in WebAuthnUsers |-> 0]
  /\ authenticators \in InitialAuthenticators
  /\ verified = {}

NextWebAuthn ==
  \E r \in Slots :
    \/ GetUserAuthenticators(r)
    \/ UpdateUserChallenge(r)
    \/ GetUserChallenge(r)
    \/ VerifyRegistrationResponse(r)
    \/ AddUserAuthenticator(r)
    \/ UpdateUser(r)

WebAuthnSpec == InitWebAuthn /\ [][NextWebAuthn]_vars

\* ------------------------------------------------------------------ claims
InHandler(q) == q.pc \notin {"idle", "received"}
Resolving(q) == q.pc \in {"lookup", "update", "email", "insertLink", "create", "token"}
Finished(q) == q.pc \in {"done", "fault"}
LinksOf(identity) ==
  {l \in links : l.providerId = identity[1] /\ l.providerUserId = identity[2]}
Identities == {<<l.providerId, l.providerUserId>> : l \in links}
                \cup {<<c[2], c[3]>> : c \in createdFor}

\* C1: a callback that has gone past its first await has read the session
\* exactly once, its session is no longer in the store and its cookie is
\* cleared; until then it has checked, resolved and sent nothing. This holds
\* at every later position of the handler, whether it ends in a token, an
\* error or a fault.
C1_DestroyedBeforeProcessing ==
  \A r \in Slots :
    LET q == req[r] IN
    /\ InHandler(q) =>
         /\ q.reads = 1
         /\ q.cookieCleared
         /\ q.sid \notin DOMAIN sessions
         /\ q.sid \in destroyed
    /\ q.pc = "received" =>
         /\ q.reads = 0
         /\ q.sent = 0 /\ q.result = NoResult
         /\ q.via = None /\ q.user = 0 /\ q.profile = NoCanonical

C1_Witness ==
  \E r \in Slots :
    /\ req[r].pc = "done" /\ req[r].result.refreshToken # 0
    /\ req[r].reads = 1 /\ req[r].sid \notin DOMAIN sessions

\* C2: a callback that presents the id of a session an earlier callback has
\* destroyed sees no provider and no grant response, never enters account
\* resolution, mints no refresh token and ends in an error redirect.
C2_ReplayFailsClosed ==
  \A r \in Slots :
    LET q == req[r] IN
    q.replay =>
      /\ q.session.provider = None
      /\ q.flow.provider = None
      /\ q.response = NoResponse
      /\ ~Resolving(q) /\ q.pc # "fault"
      /\ q.via = None /\ q.user = 0
      /\ q.result.refreshToken = 0
      /\ q.pc = "done" => q.result.error = "internal-error" /\ q.sent = 1

C2_Witness ==
  \E r \in Slots :
    /\ req[r].replay /\ req[r].pc = "done"
    /\ req[r].result.error = "internal-error"
    /\ \E other \in Slots : other # r /\ req[other].pc = "done" /\ req[other].result.refreshToken # 0

\* C3: no flow that has ended, at initiation or at the callback, has a
\* session left in the session store.
C3_TerminatedFlowLeavesNoSession ==
  /\ init.error # None => init.sid \notin DOMAIN sessions
  /\ \A r \in Slots : Finished(req[r]) => req[r].sid \notin DOMAIN sessions

\* The providers of the registry whose enablement flag is set.
EnabledProviders == {p \in DOMAIN PROVIDERS_CONFIG : p \in ProviderEnabledEnv}

\* C4: an initiating request for a provider id that is not an enabled
\* provider ends in disabled-endpoint, one for an enabled provider without a
\* complete credential pair in invalid-oauth-configuration; in both cases
\* Grant is not reached and no options are written to the session.
C4_ProviderValidation ==
  init.param # None =>
    /\ init.param \notin EnabledProviders =>
         /\ init.error = "disabled-endpoint"
         /\ ~init.reachedGrant
         /\ init.sid \in DOMAIN sessions => sessions[init.sid].options = NoOptions
    /\ (init.param \in EnabledProviders /\ MissingCredentials(PROVIDERS_CONFIG[init.param])) =>
         /\ init.error = "invalid-oauth-configuration"
         /\ ~init.reachedGrant
         /\ init.sid \in DOMAIN sessions => sessions[init.sid].options = NoOptions

\* C5: every callback that has ended has sent exactly one redirect, to the
\* redirect target of its flow, carrying either a refresh token or an error
\* with its description, never both and never neither.
C5_ExactlyOneRedirect ==
  \A r \in Slots :
    LET q == req[r] IN
    Finished(q) =>
      /\ q.sent = 1
      /\ q.result.to = q.flow.redirectTo
      /\ (q.result.refreshToken # 0) # (q.result.error # None)
      /\ (q.result.error # None) = (q.result.errorDescription # None)

\* C6: a callback that ended in an error redirect has written nothing to the
\* user and link tables: it created no user, inserted no link and updated
\* no stored tokens.
C6_NoPartialSuccess ==
  \A r \in Slots :
    LET q == req[r] IN
    (q.pc = "done" /\ q.result.error # None) => q.via = None

\* A link without the tokens the provider issued.
Untokened(l) == [id |-> l.id, userId |-> l.userId, providerId |-> l.providerId,
                 providerUserId |-> l.providerUserId]

\* C7: when the link query finds a link for (provider, profile.id), the
\* resolution goes to the update branch with the user of that link, whatever
\* the e-mail of the profile; the update changes the two tokens of that one
\* link and nothing else; no step of this branch inserts a link or changes a
\* user.
C7_UpdateBranchStep ==
  \A r \in Slots :
    LET q == req[r]
        found == LinksOf(Identity(q))
    IN /\ (q.pc = "lookup" /\ req'[r].pc # "lookup" /\ found # {}) =>
            /\ req'[r].pc = "update"
            /\ \E l \in found : req'[r].link = l.id /\ req'[r].user = l.userId
            /\ users' = users /\ links' = links
       /\ (q.pc = "update" /\ req'[r].pc # "update") =>
            /\ users' = users
            /\ {Untokened(l) : l \in links'} = {Untokened(l) : l \in links}
            /\ Cardinality(links') = Cardinality(links)
            /\ \A l \in links : l.id # q.link => l \in links'
            /\ \A l \in links' : l.id = q.link =>
                 /\ l.accessToken = q.response.access_token
                 /\ l.refreshToken = q.response.refresh_token
            /\ req'[r].user = q.user /\ req'[r].via = "update"
       /\ (q.pc = "token" /\ q.via = "update" /\ req'[r].pc # "token") =>
            users' = users /\ links' = links

\* C7: every step of every behaviour is a step of the update branch as
\* described: first match wins, only the tokens of the found link change.
C7_UpdateBranch == [][C7_UpdateBranchStep]_vars

C7_Witness ==
  \E r \in Slots :
    /\ req[r].pc = "token" /\ req[r].via = "update"
    /\ \E u \in users : u.email = req[r].profile.email /\ u.id # req[r].user
    /\ \E l \in links : l.id = req[r].link /\ l.accessToken = req[r].response.access_token

\* C8: when no link exists for (provider, profile.id) and a user has the
\* e-mail of the profile, the e-mail query sends the resolution to the link
\* insertion with that user, verified e-mail or not; the insertion adds
\* exactly one link, from that user to (provider, profile.id), creates no
\* user and returns that user.
C8_LinkByEmailStep ==
  \A r \in Slots :
    LET q == req[r]
        byEmail == {u \in users : u.email = q.profile.email}
    IN /\ (q.pc = "email" /\ req'[r].pc # "email" /\ byEmail # {}) =>
            /\ req'[r].pc = "insertLink"
            /\ \E u \in byEmail : req'[r].user = u.id
            /\ users' = users /\ links' = links
       /\ (q.pc = "insertLink" /\ req'[r].pc # "insertLink" /\ LinksOf(Identity(q)) = {}) =>
            /\ users' = users
            /\ \E l \in links' \ links :
                 /\ links' = links \cup {l}
                 /\ l.userId = q.user
                 /\ <<l.providerId, l.providerUserId>> = Identity(q)
            /\ \E u \in users : u.id = q.user /\ u.email = q.profile.email
            /\ req'[r].pc = "token" /\ req'[r].user = q.user /\ req'[r].via = "link"

\* C8: every step of every behaviour links by e-mail as described: one new
\* link to the existing user, no new user, emailVerified not consulted.
C8_LinkByEmail == [][C8_LinkByEmailStep]_vars

C8_Witness ==
  \E r \in Slots :
    /\ req[r].pc = "token" /\ req[r].via = "link"
    /\ ~req[r].profile.emailVerified
    /\ \E l \in links : l.userId = req[r].user /\ <<l.providerId, l.providerUserId>> = Identity(req[r])

\* A request whose findOrCreateUser has returned a user.
Resolved(q) == q.via # None

\* C9: for every request whose resolution returned a user, exactly one link
\* exists for its (provider, profile.id) and it points to the returned user;
\* every link references exactly one existing user; two resolutions of the
\* same identity returned the same user; and a resolution that finds the
\* link goes to the update branch, which adds no link and no user.
C9_ResolutionState ==
  /\ \A r \in Slots :
       Resolved(req[r]) =>
         /\ Cardinality(LinksOf(Identity(req[r]))) = 1
         /\ \A l \in LinksOf(Identity(req[r])) : l.userId = req[r].user
  /\ \A l \in links : Cardinality({u \in users : u.id = l.userId}) = 1
  /\ \A r1, r2 \in Slots :
       (Resolved(req[r1]) /\ Resolved(req[r2]) /\ Identity(req[r1]) = Identity(req[r2]))
         => req[r1].user = req[r2].user

C9_RepeatStep ==
  \A r \in Slots :
    /\ (req[r].pc = "lookup" /\ req'[r].pc # "lookup" /\ LinksOf(Identity(req[r])) # {}) =>
         req'[r].pc = "update"
    /\ (req[r].via = None /\ req'[r].via = "update") =>
         /\ Cardinality(links') = Cardinality(links)
         /\ users' = users

\* C9: the post-condition of resolution holds in every state and a repeated
\* resolution of an identity creates nothing.
C9_Idempotent == []C9_ResolutionState /\ [][C9_RepeatStep]_vars

C9_Witness ==
  \E r1, r2 \in Slots :
    /\ r1 # r2
    /\ req[r1].pc = "done" /\ req[r2].pc = "done"
    /\ req[r1].via \in {"link", "create"} /\ req[r2].via = "update"
    /\ Identity(req[r1]) = Identity(req[r2])
    /\ req[r1].user = req[r2].user
    /\ Cardinality(LinksOf(Identity(req[r1]))) = 1

\* The users of an external identity: those linked to it and those
\* insertUser created for it.
UsersOf(identity) ==
  {u \in users : \/ \E l \in LinksOf(identity) : l.userId = u.id
                 \/ <<u.id, identity[1], identity[2]>> \in createdFor}

\* C10: however the steps of concurrent resolutions interleave, no external
\* identity has two links or two users.
C10_RaceSafe ==
  \A identity \in Identities :
    /\ Cardinality(LinksOf(identity)) <= 1
    /\ Cardinality(UsersOf(identity)) <= 1

C10_Witness ==
  \E r1, r2 \in Slots :
    /\ r1 # r2
    /\ Identity(req[r1]) = Identity(req[r2])
    /\ req[r1].via \in {"link", "create"}
    /\ req[r2].pc = "done" /\ req[r2].via = None
    /\ req[r2].result.errorDescription = "Uniqueness violation"

\* The callback is past its checks of provider, response, profile and tokens.
ReachesCreateUser(q) ==
  /\ q.pc = "destroyed"
  /\ q.flow.provider # None
  /\ q.response # NoResponse /\ q.response.profile # NoProfile
  /\ q.response.access_token # 0 /\ q.response.refresh_token # 0

C11_MissingIdStep ==
  \A r \in Slots :
    LET q == req[r] IN
    (ReachesCreateUser(q) /\ normaliseProfile(q.response.profile).id = None
       /\ req'[r].pc = "done") =>
      /\ req'[r].result.error = "internal-error"
      /\ req'[r].result.refreshToken = 0
      /\ req'[r].via = None
      /\ users' = users /\ links' = links /\ issued' = issued

\* C11: a callback whose profile has no id ends, without a link query, an
\* e-mail query, an insert or a refresh token, in an error redirect whose
\* error code is internal-error.
C11_MissingIdIsInternalError == [][C11_MissingIdStep]_vars

\* A provider error payload: a JSON object with an error member.
ProviderError(data) == data.type = "object" /\ "error" \in data.keys

\* C12: when the identity endpoint answered with an error payload, such as
\* {error: "invalid_token"}, the handler sent that payload unchanged and ran
\* no store query, no account resolution and no token issuance.
C12_ProviderErrorUnchanged ==
  (native.serial # 0 /\ ProviderError(native.response)) =>
    /\ native.sent.body = native.response
    /\ native.sent.error = None /\ native.sent.data = NoPayload
    /\ native.sent.refreshToken = 0
    /\ native.queries = {} /\ native.branch = None /\ native.user = 0

\* A valid identity payload: a JSON object with every identity member.
ValidIdentity(data) == data.type = "object" /\ UserDataKeys \subseteq data.keys
\* Anything else is malformed: no JSON, null, no object, a member missing.
Malformed(data) == ~ProviderError(data) /\ ~ValidIdentity(data)

\* C13: every answer of the identity endpoint is handled as a provider
\* error, as malformed or as a valid identity payload; the handler never
\* ends without a response; a malformed answer runs no account resolution
\* and yields a result of the form { error }; only a valid identity payload
\* reaches account resolution.
C13_Classification ==
  native.serial # 0 =>
    /\ ~native.threw
    /\ native.sent # NoSent
    /\ Malformed(native.response) =>
         /\ native.sent.error # None
         /\ native.sent.body = NoPayload /\ native.sent.refreshToken = 0
         /\ native.queries = {} /\ native.branch = None
    /\ native.queries # {} => ValidIdentity(native.response)

CanonicalProfiles == {normaliseProfile(p) : p \in RawProfiles}

\* The links without the refresh token the provider issued.
WithoutRefreshToken(ls) == {[l EXCEPT !.refreshToken = 0] : l \in ls}

SameLinkage(a, b) ==
  /\ a.branch = b.branch
  /\ a.user = b.user
  /\ a.error = b.error
  /\ a.users = b.users
  /\ WithoutRefreshToken(a.links) = WithoutRefreshToken(b.links)
  /\ a.createdFor = b.createdFor

C14_SameDecision ==
  \A profile \in CanonicalProfiles, minted \in BOOLEAN :
    LET n == started + 1 IN
    SameLinkage(NativeCreateUser(n, profile, n, minted),
                CallbackCreateUser("google", n, n, profile, NoOptions, n, minted))

C14_NativeStep ==
  (native'.serial = started + 1 /\ isUserData(native'.response)
     /\ ~isErrorResponse(native'.response)) =>
    LET n == started + 1
        viaCallback == CallbackCreateUser("google", n, n, nativeNormaliseProfile(native'.response),
                                          NoOptions, n, TRUE)
    IN /\ native'.branch = viaCallback.branch
       /\ native'.user = viaCallback.user
       /\ users' = viaCallback.users
       /\ WithoutRefreshToken(links') = WithoutRefreshToken(viaCallback.links)
       /\ \A l \in links' \ links : l.refreshToken = 0

Verifying(q) == q.op = "verify" /\ q.pc \in {"verify", "insert", "clear"}

C15_ConsumedStep ==
  \A r \in Slots :
    (Verifying(wa[r]) /\ wa'[r].pc = "done") => currentChallenge'[wa[r].id] = 0

\* C15: every verification that read an outstanding challenge leaves, when
\* it ends, verified or rejected, the user's currentChallenge cleared.
C15_VerifyConsumesChallenge == [][C15_ConsumedStep]_vars

\* The response is in order and made for the challenge the request read.
ValidFor(q) ==
  /\ q.credential.kind = "valid"
  /\ q.credential.challenge = q.currentChallenge
  /\ q.credential.origin \in AUTH_WEBAUTHN_RP_ORIGINS
  /\ q.credential.rpId = WebAuthnRelyingParty

C16_RoundTripStep ==
  /\ \A r \in Slots :
       LET q == wa[r] IN
       /\ (q.pc = "verify" /\ wa'[r].pc # "verify" /\ ValidFor(q)) =>
            /\ wa'[r].pc = "insert"
            /\ authenticators' = authenticators
       /\ (q.pc = "insert" /\ wa'[r].pc # "insert"
              /\ ~CredentialConflict(ToBase64Url(q.registrationInfo.credentialID))) =>
            /\ wa'[r].pc = "clear"
            /\ \E a \in authenticators' \ authenticators :
                 /\ authenticators' = authenticators \cup {a}
                 /\ a.userId = q.id
                 /\ a.credentialId = ToBase64Url(<<q.credential.challenge, q.credential.credential>>)
                 /\ a.credentialPublicKey = ToHexLiteral(q.registrationInfo.credentialPublicKey)
                 /\ a.counter = q.registrationInfo.counter
                 /\ a.nickname = q.nickname
       /\ (q.pc = "clear" /\ wa'[r].pc # "clear") =>
            /\ wa'[r].pc = "done" /\ wa'[r].error = None
            /\ currentChallenge'[q.id] = 0
            /\ authenticators' = authenticators
  /\ authenticators \subseteq authenticators'
  /\ Cardinality(authenticators' \ authenticators) <= 1

\* C16: a response in order for the challenge issued to the user is accepted
\* by the verification; its insertion adds exactly one authenticator, owned
\* by the user, with the credential id, public key, counter and nickname of
\* the response, and changes no other; the verification then ends with the
\* user's currentChallenge cleared.
C16_RoundTrip == [][C16_RoundTripStep]_vars

C16_Witness ==
  \E r \in Slots :
    /\ wa[r].op = "verify" /\ wa[r].pc = "done" /\ wa[r].error = None
    /\ currentChallenge[wa[r].id] = 0
    /\ \E a \in authenticators : a.userId = wa[r].id /\ a.nickname = "key" /\ a.id # 301
    /\ \E a \in authenticators : a.id = 301
    /\ Cardinality(authenticators) = 2

\* C17 as stated: a response submitted again after its verification, with no
\* challenge issued since, fails with invalid-webauthn-verification.
C17_ReplayFailsVerification ==
  \A r \in Slots :
    wa[r].replay => (wa[r].pc = "done" /\ wa[r].error = "invalid-webauthn-verification")

C17_ReplayState ==
  \A r \in Slots :
    wa[r].replay => (wa[r].pc = "done" /\ wa[r].error = "invalid-request")

C17_ReplayStep ==
  \A r \in Slots :
    (~wa[r].replay /\ wa'[r].replay) =>
      /\ authenticators' = authenticators
      /\ currentChallenge' = currentChallenge
      /\ currentChallenge[wa'[r].id] = 0

\* C17, amended: a response submitted again after its verification, with no
\* challenge issued since, fails with invalid-request (the user has no
\* stored challenge) and adds no authenticator.
C17_ReplayIsInvalidRequest == []C17_ReplayState /\ [][C17_ReplayStep]_vars

C17_Witness ==
  \E r \in Slots :
    /\ wa[r].replay /\ wa[r].pc = "done" /\ wa[r].error = "invalid-request"
    /\ \E a \in authenticators : a.userId = wa[r].id /\ a.id # 301

\* A verification request arrives at slot r with this step.
Arrives(r) == wa'[r].op = "verify" /\ started' = started + 1 /\ wa'[r] # wa[r]

C20_ErrorMappingStep ==
  /\ \A r \in Slots :
       LET q == wa[r]
           verification == verifyRegistrationResponse(q.credential, q.currentChallenge,
                                                      AUTH_WEBAUTHN_RP_ORIGINS, WebAuthnRelyingParty)
       IN /\ (Arrives(r) /\ wa'[r].id \notin {u.id : u \in users}) =>
               /\ wa'[r].pc = "done" /\ wa'[r].error = "user-not-found"
               /\ authenticators' = authenticators
          /\ (Arrives(r) /\ wa'[r].id \in {u.id : u \in users}
                 /\ currentChallenge[wa'[r].id] = 0) =>
               /\ wa'[r].pc = "done" /\ wa'[r].error = "invalid-request"
               /\ authenticators' = authenticators
          /\ (q.pc = "verify" /\ wa'[r].pc # "verify" /\ verification.threw) =>
               /\ wa'[r].pc = "done" /\ wa'[r].error = "invalid-webauthn-authenticator"
               /\ authenticators' = authenticators
          /\ (q.pc = "verify" /\ wa'[r].pc # "verify" /\ ~verification.threw
                 /\ (~verification.verified \/ ~verification.hasInfo)) =>
               /\ wa'[r].pc = "done" /\ wa'[r].error = "invalid-webauthn-verification"
               /\ authenticators' = authenticators
  /\ authenticators' # authenticators =>
       \E r \in Slots :
         LET q == wa[r]
             verification == verifyRegistrationResponse(q.credential, q.currentChallenge,
                                                        AUTH_WEBAUTHN_RP_ORIGINS, WebAuthnRelyingParty)
         IN /\ q.pc = "insert" /\ wa'[r].pc = "clear"
            /\ q.currentChallenge # 0
            /\ ~verification.threw /\ verification.verified /\ verification.hasInfo
            /\ q.registrationInfo = verification.registrationInfo

\* C20: a verification for an unknown user ends in user-not-found, for a
\* user without a stored challenge in invalid-request, on an exception of
\* the primitive in invalid-webauthn-authenticator, on verified = false or
\* missing registration info in invalid-webauthn-verification, each without
\* an authenticator being added; an authenticator is added only by a request
\* for which the primitive, given the challenge read from the user, the
\* configured origins and the relying party, returned verified = true with
\* registration info.
C20_ErrorMapping == [][C20_ErrorMappingStep]_vars

C20_Witness ==
  \E r1, r2 \in Slots :
    /\ wa[r1].op = "verify" /\ wa[r1].pc = "done"
    /\ wa[r1].error = "invalid-webauthn-authenticator"
    /\ wa[r2].op = "verify" /\ wa[r2].pc = "done"
    /\ wa[r2].error = "invalid-webauthn-verification"
    /\ wa[r1].id = wa[r2].id /\ currentChallenge[wa[r1].id] # 0
    /\ \A a \in authenticators : a.id = 301

\* C18: a request that resolved an identity for which a link exists when it
\* has finished, among them the loser of a race for a new identity, has
\* finished with the user of that link and a refresh token, unless the minting
\* of the token failed: the rejected insert was retried as an existing link.
C18_LoserRetried ==
  \A r \in Slots :
    LET q == req[r] IN
    (q.pc = "done" /\ q.profile.id # None /\ LinksOf(Identity(q)) # {}
       /\ q.result.errorDescription # "Could not insert the refresh token") =>
      /\ q.via # None
      /\ q.result.error = None /\ q.result.refreshToken # 0
      /\ \A l \in LinksOf(Identity(q)) : l.userId = q.user

\* The callback found no profile in the response of the provider.
ProfileAbsent(q) ==
  /\ q.pc = "destroyed" /\ q.flow.provider # None
  /\ q.response # NoResponse /\ q.response.profile = NoProfile
\* The callback found a profile but not both tokens.
TokensAbsent(q) ==
  /\ q.pc = "destroyed" /\ q.flow.provider # None
  /\ q.response # NoResponse /\ q.response.profile # NoProfile
  /\ (q.response.access_token = 0 \/ q.response.refresh_token = 0)

C19_FailureReportStep ==
  \A r \in Slots :
    LET q == req[r] IN
    ((ProfileAbsent(q) \/ TokensAbsent(q)) /\ req'[r].pc = "done") =>
      /\ req'[r].result.error = IF q.query.error # None THEN q.query.error ELSE "internal-error"
      /\ q.query.error_description # None =>
           req'[r].result.errorDescription = q.query.error_description
      /\ req'[r].result.provider = q.flow.provider
      /\ req'[r].result.refreshToken = 0

\* C19: when the provider returned no tokens or no profile, the error
\* redirect carries the error of the callback query as its code and its
\* error_description as its description when the query has them, and
\* internal-error otherwise, together with the provider of the flow.
C19_FailureReport == [][C19_FailureReportStep]_vars

\* The authenticators of a user.
AuthenticatorsOf(id) == {a \in authenticators : a.userId = id}

C21_IssueStep ==
  \A r \in Slots :
    LET q == wa[r] IN
    \* the options are built: they exclude the user's credential ids
    /\ (WaFree(r) /\ wa'[r].pc = "generated") =>
         /\ \A a \in authenticators :
              (a.userId = wa'[r].id) <=>
                (\E x \in wa'[r].excludeCredentials : a.credentialId = ToBase64Url(x))
         /\ Cardinality(wa'[r].excludeCredentials) = Cardinality(AuthenticatorsOf(wa'[r].id))
         /\ \A u \in WebAuthnUsers : wa'[r].challenge # currentChallenge[u]
         /\ \A other \in Slots : wa[other].pc = "generated" => wa'[r].challenge # wa[other].challenge
    \* the challenge is stored: it replaces the one of this user
    /\ (q.pc = "generated" /\ wa'[r].pc # "generated") =>
         /\ currentChallenge'[q.id] = q.challenge
         /\ \A u \in WebAuthnUsers \ {q.id} : currentChallenge'[u] = currentChallenge[u]
         /\ wa'[r].pc = "done" /\ wa'[r].error = None /\ wa'[r].challenge = q.challenge
    \* a verification reads the challenge that is stored now
    /\ (WaFree(r) /\ wa'[r].pc = "verify") =>
         wa'[r].currentChallenge = currentChallenge[wa'[r].id]
    \* a response made for another challenge than the one read is rejected
    /\ (q.pc = "verify" /\ wa'[r].pc # "verify" /\ q.credential.challenge # q.currentChallenge) =>
         /\ wa'[r].pc = "done" /\ wa'[r].error # None
         /\ authenticators' = authenticators

C21_IssueState ==
  \A r \in Slots :
    wa[r].pc \in {"insert", "clear"} => wa[r].credential.challenge = wa[r].currentChallenge

\* C21: each issue stores its new challenge in place of the one the user
\* had, so one challenge per user is stored; a verification is checked
\* against the challenge stored when it reads the user, and a response made
\* for an earlier challenge is rejected without an authenticator; the
\* options of an issue exclude exactly the credential ids of the
\* authenticators the user has when they are built.
C21_OneLiveChallenge == []C21_IssueState /\ [][C21_IssueStep]_vars

C21_Witness ==
  \E r \in Slots, id \in WebAuthnUsers :
    /\ wa[r].pc = "verify" /\ wa[r].id = id
    /\ currentChallenge[id] = 2 /\ wa[r].currentChallenge = 2
    /\ \A u \in WebAuthnUsers \ {id} : currentChallenge[u] = 0
    /\ wa[r].credential = Credential(1, 1, "valid", "https://app", WebAuthnRelyingParty)
    /\ AuthenticatorsOf(id) # {}
\* C22: account resolution, branch 3 (create): when createUser is called with
\* a profile for which neither a link (provider, id) nor a user with its
\* e-mail exists, exactly one user and one link are added, the link is the
\* user's and carries (provider, id), and the defaults are applied at this
\* point: the display name is the caller's option if given, else the
\* provider's, else the e-mail; the locale is the requested locale, else the
\* profile's, if that is an allowed locale, else the configured default;
\* defaultRole and roles are the caller's options if given, else the
\* configured defaults.
Given(options, key) == Field(options, key, None) \notin {None, ""}

RolesGiven(options) ==
  LET allowedRoles == Field(options, "allowedRoles", NoRoles) IN
  allowedRoles.type = "array" \/ (allowedRoles.type = "string" /\ allowedRoles.value # <<>>)

NeitherLinkNorUser(provider, profile) ==
  /\ profile.id # None
  /\ ~ \E l \in links : l.providerId = provider /\ l.providerUserId = profile.id
  /\ ~ \E u \in users : profile.email # None /\ u.email = profile.email

C22_Defaults(u, profile, options) ==
  LET requested == IF Given(options, "locale") THEN options.locale ELSE profile.locale
      allowedRoles == Field(options, "allowedRoles", NoRoles)
  IN /\ u.email = profile.email
     /\ u.displayName = IF Given(options, "displayName") THEN options.displayName
                        ELSE IF profile.displayName # None THEN profile.displayName
                        ELSE profile.email
     /\ u.locale = IF requested \in AUTH_LOCALES_ALLOWED THEN requested ELSE AUTH_LOCALE_DEFAULT
     /\ u.defaultRole = IF Given(options, "defaultRole") THEN options.defaultRole
                        ELSE AUTH_USER_DEFAULT_ROLE
     /\ IF ~RolesGiven(options) THEN u.roles = AUTH_USER_DEFAULT_ALLOWED_ROLES
        ELSE IF allowedRoles.type = "array" THEN u.roles = allowedRoles.value
        ELSE { u.roles[i] : i \in DOMAIN u.roles }
               = { allowedRoles.value[i] : i \in DOMAIN allowedRoles.value } \ {","}

C22_CreateStep ==
  (creation'.serial # creation.serial
     /\ NeitherLinkNorUser(creation'.provider, creation'.profile))
  => /\ creation'.branch = "create"
     /\ Cardinality(users' \ users) = 1
     /\ Cardinality(links' \ links) = 1
     /\ users \subseteq users'
     /\ links \subseteq links'
     /\ \A u \in users' \ users :
          /\ u.id = creation'.user
          /\ C22_Defaults(u, creation'.profile, creation'.options)
          /\ \A l \in links' \ links :
               /\ l.userId = u.id
               /\ l.providerId = creation'.provider
               /\ l.providerUserId = creation'.profile.id

Resolves(q) ==
  \/ Resolving(q)
  \/ q.via # None
  \/ q.result.refreshToken # 0

C23_SingleUse ==
  \A r1, r2 \in Slots :
    (r1 # r2 /\ req[r1].sid # 0 /\ req[r1].sid = req[r2].sid)
    => /\ ~(Resolves(req[r1]) /\ Resolves(req[r2]))
       /\ ~(req[r1].result.refreshToken # 0 /\ req[r2].result.refreshToken # 0)

\* C24: single use of a WebAuthn challenge under concurrency: one issued
\* challenge leads to at most one persisted authenticator of its user, also
\* when concurrent verifications submit responses of different credentials
\* made for that challenge.
ChallengeOf(authenticator) == FromBase64Url(authenticator.credentialId)[1]

C24_SingleUse ==
  \A a1, a2 \in authenticators :
    (a1.userId = a2.userId /\ ChallengeOf(a1) = ChallengeOf(a2)) => a1 = a2

====
